---- MODULE Spec2Model ----
(***************************************************************************)
(* The worker runtime of apps/workers: the consume loops of the ingest,    *)
(* embed and QA workers, their handlers, the job bus they subscribe to and *)
(* publish on, and the lifespan that starts and stops them.                *)
(*                                                                         *)
(* Scheduling.  The workers of one process are asyncio tasks of one event  *)
(* loop: a task runs alone from one await that really suspends to the next *)
(* one.  pc[w] names the statement worker w executes next; AwaitPcs are    *)
(* the positions where its task is suspended in an await, and only there   *)
(* may another task of the same process, the lifespan or the environment   *)
(* take a step.                                                            *)
(***************************************************************************)
EXTENDS Integers, Sequences, FiniteSets, TLC

\* ------------------------------------------------------------------ bounds
\* messages the environment (the API, other publishers) puts on the bus
MaxPublish == 2
\* redeliveries the bus makes of nak'd deliveries
MaxRedeliver == 1
\* messages the environment publishes in the runs with redelivery
MaxPublishRetry == 1
\* messages the environment publishes in the runs that end in a shutdown
MaxPublishShutdown == 1
\* messages the environment publishes to the two competing ingest workers
MaxPublishScale == 1
\* messages the environment publishes to the embed worker on its own
MaxPublishEmbed == 2
\* messages the environment publishes over the failing transport
MaxPublishTransport == 1
\* subscriptions up to which the transport fails under an iteration
MaxTransportErrors == 2
\* paragraphs of a text handed to the splitter in a direct call
MaxParas == 3
\* candidates one search pass returns in a direct call of the retrieval
MaxPassResults == 2
\* the largest max_results of a QAJob in a direct call of the retrieval
MaxResults == 2
\* ranked chunks handed to the citation builder in a direct call
MaxRanked == 2

\* ------------------------------------------------------- program constants
\* ingest_worker.py:275  max_page_length
max_page_length == 2000

\* ------------------------------------------------------------------ domain
Docs == {"d1"}

\* worker instances; ingest1, embed1 and qa1 are the tasks main.py creates in
\* one process, ingest2 is a second instance of the ingest worker in a
\* process of its own
Workers == {"ingest1", "embed1", "qa1", "ingest2"}

KindOf(w) ==
    CASE w \in {"ingest1", "ingest2"} -> "ingest"
      [] w = "embed1" -> "embed"
      [] w = "qa1" -> "qa"

ProcOf(w) == IF w = "ingest2" THEN "p2" ELSE "p1"

\* the subject each worker kind subscribes to
SubjectOf(kind) ==
    CASE kind = "ingest" -> "jobs.ingest"
      [] kind = "embed" -> "jobs.embed"
      [] kind = "qa" -> "jobs.qa"

\* the pydantic model each worker kind parses its payload with
ModelOf(kind) ==
    CASE kind = "ingest" -> "IngestJob"
      [] kind = "embed" -> "EmbedJob"
      [] kind = "qa" -> "QAJob"

\* the fields a payload must carry to validate as a job model (jobs.py);
\* fields with defaults are not required, extra fields are ignored
RequiredFields(model) ==
    CASE model = "IngestJob" -> {"document_id", "file_path", "mime_type", "file_size"}
      [] model = "EmbedJob" -> {"document_id", "chunks"}
      [] model = "QAJob" -> {"query"}

NoJob == [unbound |-> TRUE]

\* no direct call is made, or the call made has not returned
NoCall == [none |-> TRUE]

\* ----------------------------------------------------------------- storage
\* A text is the sequence of its blank-line separated paragraphs, each with
\* an identity and a length in characters; the empty string is <<>>.
Para(id, len) == [id |-> id, len |-> len]

\* The objects of the S3 bucket: whether the key exists, what ClamAV says of
\* the file, the text pdfminer extracts and the text OCR reads off its pages.
Storage(path) ==
    CASE path = "short.pdf" ->
            [present |-> TRUE, threat |-> FALSE,
             text |-> <<Para("hello", 11)>>, ocr |-> <<>>]
      [] path = "long.pdf" ->
            [present |-> TRUE, threat |-> FALSE,
             text |-> <<Para("a", 1200), Para("b", 1200)>>, ocr |-> <<>>]
      [] path = "virus.pdf" ->
            [present |-> TRUE, threat |-> TRUE,
             text |-> <<Para("x", 40)>>, ocr |-> <<>>]
      [] path = "scan.pdf" ->
            [present |-> TRUE, threat |-> FALSE,
             text |-> <<>>, ocr |-> <<Para("ocr", 300)>>]
      [] path = "blank.pdf" ->
            [present |-> TRUE, threat |-> FALSE, text |-> <<>>, ocr |-> <<>>]
      [] path = "missing.pdf" ->
            [present |-> FALSE, threat |-> FALSE, text |-> <<>>, ocr |-> <<>>]

Files == {"long.pdf", "virus.pdf", "scan.pdf", "blank.pdf", "missing.pdf"}

\* ---------------------------------------------------------------- payloads
\* The bytes of a message: the syntax they are written in and the object
\* they denote.  json.dumps writes JSON; str() of a dict writes a Python
\* literal (single-quoted keys, UUID('...') for a UUID), which is not JSON.
JsonDumps(obj) == [syntax |-> "json", obj |-> obj]

PyStr(obj) == [syntax |-> "python_repr", obj |-> obj]

Garbage == [syntax |-> "garbage", obj |-> [junk |-> TRUE]]

\* BaseModel.parse_raw: the text is parsed as JSON and validated against the
\* model; a text that is not JSON, or lacks a required field, raises.
ParseRaw(model, payload) ==
    IF payload.syntax = "json" /\ RequiredFields(model) \subseteq DOMAIN payload.obj
    THEN [ok |-> TRUE, job |-> payload.obj]
    ELSE [ok |-> FALSE, job |-> NoJob]

\* ------------------------------------------------------- ingest algorithms
\* a page numbered from one: what the page dict would be with
\* len(pages) + 1 for its number
PageNumberedFromOne(n, paras) == [page_number |-> n + 1, content |-> paras]

\* {"page_number": len(pages), "content": "\n\n".join(current_page)}: the
\* content is kept as the sequence of the paragraphs joined
Page(n, paras) == [page_number |-> n, content |-> paras]

\* len("\n\n".join(paras)): the paragraphs and two characters between each two
RECURSIVE SumLen(_)
SumLen(paras) ==
    IF paras = <<>> THEN 0 ELSE paras[1].len + SumLen(Tail(paras))

JoinLen(paras) ==
    IF paras = <<>> THEN 0 ELSE SumLen(paras) + 2 * (Len(paras) - 1)

\* str.split('\n\n'): the empty string splits into one empty paragraph
PySplit(text) == IF text = <<>> THEN <<Para("", 0)>> ELSE text

\* a loop that starts the next page empty when a paragraph overflows, losing
\* that paragraph: what _split_text_into_pages must not be
RECURSIVE SplitLoopDroppingOverflow(_, _, _, _, _)
SplitLoopDroppingOverflow(paragraphs, i, pages, current_page, current_length) ==
    IF i > Len(paragraphs)
    THEN IF current_page # <<>>
         THEN Append(pages, Page(Len(pages), current_page))
         ELSE pages
    ELSE LET paragraph == paragraphs[i] IN
         IF current_length + paragraph.len > max_page_length /\ current_page # <<>>
         THEN SplitLoopDroppingOverflow(paragraphs, i + 1,
                        Append(pages, Page(Len(pages), current_page)),
                        <<>>, 0)
         ELSE SplitLoopDroppingOverflow(paragraphs, i + 1, pages,
                        Append(current_page, paragraph),
                        current_length + paragraph.len)

\* the loop of _split_text_into_pages and the flush that follows it
RECURSIVE SplitLoop(_, _, _, _, _)
SplitLoop(paragraphs, i, pages, current_page, current_length) ==
    IF i > Len(paragraphs)
    THEN IF current_page # <<>>
         THEN Append(pages, Page(Len(pages), current_page))
         ELSE pages
    ELSE LET paragraph == paragraphs[i] IN
         IF current_length + paragraph.len > max_page_length /\ current_page # <<>>
         THEN SplitLoop(paragraphs, i + 1,
                        Append(pages, Page(Len(pages), current_page)),
                        <<paragraph>>, paragraph.len)
         ELSE SplitLoop(paragraphs, i + 1, pages,
                        Append(current_page, paragraph),
                        current_length + paragraph.len)

split_text_into_pages(text) == SplitLoop(PySplit(text), 1, <<>>, <<>>, 0)

\* not text.strip()
IsBlank(text) == \A i \in 1..Len(text) : text[i].len = 0

\* settings.ENABLE_OCR (config.py:48); start() then builds the OCR reader
ENABLE_OCR == TRUE

\* _download_file: a key that is not in the bucket raises
download_file(path) ==
    IF Storage(path).present
    THEN [ok |-> TRUE, error |-> "none"]
    ELSE [ok |-> FALSE, error |-> "Failed to download file from S3"]

\* a scan that raises nothing, whatever ClamAV answers: what _virus_scan
\* would be without its FOUND branch
virus_scan_ignoring_found(path, has_clamav, reachable) ==
    [ok |-> TRUE, error |-> "none"]

\* _virus_scan: skipped without a ClamAV client; with one, a scan call that
\* cannot reach the daemon raises inside the try, and so does a FOUND result:
\* both leave wrapped as a scan failure
virus_scan(path, has_clamav, reachable) ==
    IF ~has_clamav
    THEN [ok |-> TRUE, error |-> "none"]
    ELSE IF ~reachable
         THEN [ok |-> FALSE, error |-> "Virus scan failed: Connection refused"]
         ELSE IF Storage(path).threat
              THEN [ok |-> FALSE, error |-> "Virus scan failed: Virus detected"]
              ELSE [ok |-> TRUE, error |-> "none"]

\* the class of the exception object that carries a failure out of
\* _process_ingest_job: every raise of the worker builds a plain Exception
\* around a message, and _virus_scan wraps what its try raised, a FOUND
\* result included, in one more plain Exception
ExceptionClass(error) == "Exception"

\* _extract_text: pdfminer first, OCR when that gives nothing, then the split
extract_text(path, mime_type) ==
    IF mime_type # "application/pdf"
    THEN [ok |-> FALSE, error |-> "Unsupported mime type", pages |-> <<>>]
    ELSE LET native == Storage(path).text IN
         IF IsBlank(native)
         THEN IF ENABLE_OCR
              THEN [ok |-> TRUE, error |-> "none",
                    pages |-> split_text_into_pages(Storage(path).ocr)]
              ELSE [ok |-> FALSE,
                    error |-> "Text extraction failed: No text found and OCR is disabled",
                    pages |-> <<>>]
         ELSE [ok |-> TRUE, error |-> "none", pages |-> split_text_into_pages(native)]

\* ----------------------------------------------------------- QA algorithms
\* Python's None
PyNone == [py_none |-> TRUE]

\* dict.get(key, default)
Get(d, key, default) == IF key \in DOMAIN d THEN d[key] ELSE default

\* seq[:n] for n >= 0
PySlice(seq, n) == SubSeq(seq, 1, IF n < Len(seq) THEN n ELSE Len(seq))

\* the loop of _combine_results: a result is kept when its chunk_id (None
\* when the result has none) has not been seen
RECURSIVE Dedup(_, _, _)
Dedup(combined, seen, unique_results) ==
    IF combined = <<>>
    THEN unique_results
    ELSE LET result == Head(combined)
             chunk_id == Get(result, "chunk_id", "None")
         IN IF chunk_id \notin seen
            THEN Dedup(Tail(combined), seen \cup {chunk_id},
                       Append(unique_results, result))
            ELSE Dedup(Tail(combined), seen, unique_results)

\* a combination that keeps every result of both passes: what
\* _combine_results would be without its deduplication
combine_results_keeping_all(vector_results, bm25_results) ==
    vector_results \o bm25_results

\* _combine_results(vector_results, bm25_results)
combine_results(vector_results, bm25_results) ==
    Dedup(vector_results \o bm25_results, {}, <<>>)

\* a retrieval that fills its result up to max_results with a chunk no pass
\* returned: what _retrieve_chunks must not be
retrieve_chunks_padded(qa_job, vector_results, bm25_results) ==
    LET found == PySlice(combine_results(vector_results, bm25_results),
                         qa_job.max_results)
    IN found \o [i \in 1..(qa_job.max_results - Len(found)) |->
                    [chunk_id |-> "c0", document_id |-> "d1"]]

\* _retrieve_chunks(job), given what the two passes return: the passes are
\* called with the query and a limit and nothing else of the job
retrieve_chunks(qa_job, vector_results, bm25_results) ==
    PySlice(combine_results(vector_results, bm25_results), qa_job.max_results)

\* job_id = f"qa_{int(start_time)}", the clock read in tenths of a second:
\* int() drops the fraction
job_id(start_time) == [prefix |-> "qa_", seconds |-> start_time \div 10]

\* redis setex(f"qa_result:{job_id}", 3600, str(result)): the key holds the
\* value last set
cache_result(cache, id, result) ==
    LET key == [prefix |-> "qa_result:", job_id |-> id] IN
    [k \in DOMAIN cache \cup {key} |-> IF k = key THEN result ELSE cache[k]]

\* _rerank_chunks: no cross-encoder is called, the chunks return as they came
rerank_chunks(query, chunks) == chunks

\* the citation dict _create_citations builds for a chunk
Citation(chunk) ==
    [document_id |-> Get(chunk, "document_id", "None"),
     page_number |-> Get(chunk, "page_number", 0),
     chunk_index |-> Get(chunk, "chunk_index", 0),
     content |-> Get(chunk, "content", ""),
     score |-> Get(chunk, "score", 0)]

\* _create_citations(chunks): one citation per chunk, in order
create_citations(chunks) == [i \in 1..Len(chunks) |-> Citation(chunks[i])]

\* ------------------------------------------------------------------- state
VARIABLES
    pc,              \* per worker: the statement its task executes next
    is_running,      \* per worker: self.is_running
    conn,            \* per worker: self.nats_client: "none", "open", "closed"
    clamav_client,   \* per worker: whether self.clamav_client is set
    sub,             \* per worker: the subscription _process_jobs iterates (0: none)
    cur,             \* per worker: the delivery (msg) being handled (0: none)
    job,             \* per worker: the local `job` of _process_jobs (NoJob: unbound)
    frame,           \* per worker: the locals of the handler in flight
    processed_jobs,  \* per worker: self.processed_jobs
    failed_jobs,     \* per worker: self.failed_jobs
    msgs,            \* bus: every message published, in order
    dlv,             \* bus: every delivery of a message to a subscription
    subs,            \* bus: every subscription made, in order
    status,          \* database: per document, the status last written
    stored,          \* database: per document, the embeddings last stored
    scratch,         \* disk: the temp files that exist
    lifespan,        \* main.py lifespan: "serving", "stopping", "stopped"
    stop_idx,        \* lifespan: the next worker of `workers` to stop
    publish_quota,   \* messages the environment may still publish
    redeliver_quota, \* redeliveries the bus may still make
    provider_faults, \* the kinds of defective vector the provider may return
    call,            \* a direct call of a function of the workers: its arguments
    ret              \* what that call returned (NoCall: it has not returned)

workerVars == <<pc, is_running, conn, clamav_client, sub, cur, job, frame,
                processed_jobs, failed_jobs>>
busVars == <<msgs, dlv, subs>>
dataVars == <<status, stored, scratch>>
lifeVars == <<lifespan, stop_idx>>
envVars == <<publish_quota, redeliver_quota, provider_faults>>
callVars == <<call, ret>>
vars == <<workerVars, busVars, dataVars, lifeVars, envVars, callVars>>

\* the positions where a task is suspended in an await (or has ended)
AwaitPcs == {"absent", "init", "iter", "sleep1", "cleanup", "embed",
             "qa_vector", "qa_generate", "qa_cache",
             "returned", "crashed", "cancelled"}

EndedPcs == {"absent", "returned", "crashed", "cancelled"}

\* the positions inside a handler invocation (_process_*_job has been entered
\* and has not yet returned or raised to the consume loop)
HandlerPcs == {"download", "scan", "extract", "set_ingested", "publish", "cleanup",
               "embed", "store", "set_embedded",
               "qa_vector", "qa_generate", "qa_cache"}

\* the task of w may take a step: no other task of its event loop is running
CanRun(w) ==
    \A v \in Workers \ {w} : ProcOf(v) = ProcOf(w) => pc[v] \in AwaitPcs

\* the lifespan coroutine of process p, or the world outside, may take a step
Quiet(p) == \A v \in Workers : ProcOf(v) = p => pc[v] \in AwaitPcs

AllQuiet == \A v \in Workers : pc[v] \in AwaitPcs

EmptyFrame ==
    [local_file |-> 0, pages |-> <<>>, embeddings |-> <<>>, requests |-> <<>>,
     error |-> "none"]

\* ---------------------------------------------------------------------- bus
Indices(seq) == [i \in 1..Len(seq) |-> i]

\* nats_client.subscribe(subject): no queue group is named
NewSubscription(w, subject) == [owner |-> w, subject |-> subject, queue |-> ""]

\* The subscriptions a message on `subject` is delivered to: every open
\* subscription that names no queue group, and one member of each queue group.
Receivers(subject, ss, cn) ==
    LET live == {s \in 1..Len(ss) : ss[s].subject = subject /\ cn[ss[s].owner] = "open"}
    IN {s \in live : ss[s].queue = ""
                     \/ \A t \in live : ss[t].queue = ss[s].queue => s <= t}

\* A delivery, and what became of it: its state on the bus ("queued",
\* "handling", "acked", "nakked", "redelivered", or "unanswered" once the
\* consume loop has left it without ack or nak), how its handler ended
\* (result, error) and the status its handler last wrote.
Delivery(m, s) ==
    [msg |-> m, sub |-> s, state |-> "queued", result |-> "none", error |-> "none",
     wrote |-> "nothing", wrote_error |-> "none"]

\* the deliveries after message number m has been published on `subject`
Fanout(m, subject, ds, ss, cn) ==
    LET rcv == SelectSeq(Indices(ss), LAMBDA s : s \in Receivers(subject, ss, cn))
    IN ds \o [i \in 1..Len(rcv) |-> Delivery(m, rcv[i])]

\* a message; cause is the delivery whose handler published it (0: a
\* publisher outside the workers)
Message(subject, payload, cause) ==
    [subject |-> subject, payload |-> payload, cause |-> cause]

\* an embed job whose pages are numbered on from the messages published so
\* far: what the dict would be if the numbering outlived one job
EmbedJobDictNumberedAcrossJobs(document_id, text_content) ==
    [document_id |-> document_id,
     chunks |-> [i \in 1..Len(text_content) |->
                    [text_content[i] EXCEPT !.page_number = @ + Len(msgs)]],
     timestamp |-> "now"]

\* the dict _publish_embed_job builds, and the bytes it sends: str(embed_job)
EmbedJobDict(document_id, text_content) ==
    [document_id |-> document_id, chunks |-> text_content, timestamp |-> "now"]

EmbedJobBytes(document_id, text_content) ==
    PyStr(EmbedJobDict(document_id, text_content))

\* the oldest delivery waiting in subscription s (0: none)
NextQueued(s) ==
    LET q == {d \in 1..Len(dlv) : dlv[d].sub = s /\ dlv[d].state = "queued"}
    IN IF q = {} THEN 0 ELSE CHOOSE d \in q : \A e \in q : d <= e

SetState(ds, d, st) == [ds EXCEPT ![d].state = st]

\* ----------------------------------------------------------------- database
\* _update_document_status(document_id, status, metadata): the status write
\* as the handler issues it.  The method body is a placeholder that checks
\* nothing before the write; the write is applied as issued.
update_document_status(st, document_id, new_status, error) ==
    [st EXCEPT ![document_id] = [state |-> new_status, error |-> error]]

\* a store that leaves out the row of the last pair: what _store_embeddings
\* must not be
store_embeddings_dropping_last(sd, document_id, chunks, embeddings) ==
    [sd EXCEPT ![document_id] =
        [i \in 1..(Len(embeddings) - 1) |->
            [chunk |-> chunks[i], embedding |-> embeddings[i]]]]

\* _store_embeddings(document_id, chunks, embeddings): one row per pair
store_embeddings(sd, document_id, chunks, embeddings) ==
    LET n == IF Len(chunks) < Len(embeddings) THEN Len(chunks) ELSE Len(embeddings)
    IN [sd EXCEPT ![document_id] =
            [i \in 1..n |-> [chunk |-> chunks[i], embedding |-> embeddings[i]]]]

\* ------------------------------------------------------------ what is sent
IngestJob(d, f, m) ==
    [document_id |-> d, file_path |-> f, mime_type |-> m, file_size |-> 1]

\* every file as a PDF, and one job that names a mime type that is not PDF
IngestJobs ==
    {IngestJob(d, f, "application/pdf") : d \in Docs, f \in Files}
    \cup {IngestJob(d, "long.pdf", "text/plain") : d \in Docs}

ChunkLists == {split_text_into_pages(Storage("short.pdf").text),
               split_text_into_pages(Storage("long.pdf").text)}

EmbedJobs == {[document_id |-> d, chunks |-> c] : d \in Docs, c \in ChunkLists}

QAJobs == {[query |-> "q1", max_results |-> 10, temperature |-> 1]}

\* what the API and other publishers put on a subject: the JSON of a job of
\* the subject's kind, or bytes that are no job at all
EnvPayloads(subject) ==
    {JsonDumps(j) : j \in (CASE subject = "jobs.ingest" -> IngestJobs
                             [] subject = "jobs.embed" -> EmbedJobs
                             [] subject = "jobs.qa" -> QAJobs)}
    \cup {Garbage}

\* the subjects a worker of this deployment consumes
Subjects == {SubjectOf(KindOf(w)) : w \in {v \in Workers : pc[v] # "absent"}}

\* what a vector the provider returns can be: a sound one, one of zeros
\* only, one with a NaN or infinite component, one of another dimension
VectorKinds == {"sound", "all_zero", "non_finite", "wrong_dimension"}

VectorFaults == VectorKinds \ {"sound"}

\* response.data[0].embedding for a chunk: the vector's content stands for
\* the text it embeds
Embedding(chunk, kind) == [of |-> chunk.content, kind |-> kind]

\* ------------------------------------------------------------ consume loop
\* start(): is_running = True, _init_connections (the NATS connection is
\* made; the ClamAV ping succeeds or the client is dropped), then the while
\* loop is entered
Start(w) ==
    /\ pc[w] = "init"
    /\ CanRun(w)
    /\ is_running' = [is_running EXCEPT ![w] = TRUE]
    /\ conn' = [conn EXCEPT ![w] = "open"]
    /\ \E clam \in (IF KindOf(w) = "ingest" THEN BOOLEAN ELSE {FALSE}) :
          clamav_client' = [clamav_client EXCEPT ![w] = clam]
    /\ pc' = [pc EXCEPT ![w] = "loop"]
    /\ UNCHANGED <<sub, cur, job, frame, processed_jobs, failed_jobs>>
    /\ UNCHANGED <<busVars, dataVars, lifeVars, envVars, callVars>>

\* start() when the bus cannot be reached: nats_client.connect raises in
\* _init_connections, which start() awaits before its loop and outside any
\* try, so the error leaves start() and the task of the worker ends with it
ConnectFails(w) ==
    /\ pc[w] = "init"
    /\ CanRun(w)
    /\ is_running' = [is_running EXCEPT ![w] = TRUE]
    /\ pc' = [pc EXCEPT ![w] = "crashed"]
    /\ UNCHANGED <<conn, clamav_client, sub, cur, job, frame,
                   processed_jobs, failed_jobs>>
    /\ UNCHANGED <<busVars, dataVars, lifeVars, envVars, callVars>>

\* while self.is_running
LoopCheck(w) ==
    /\ pc[w] = "loop"
    /\ CanRun(w)
    /\ pc' = [pc EXCEPT ![w] = IF is_running[w] THEN "subscribe" ELSE "returned"]
    /\ UNCHANGED <<is_running, conn, clamav_client, sub, cur, job, frame,
                   processed_jobs, failed_jobs>>
    /\ UNCHANGED <<busVars, dataVars, lifeVars, envVars, callVars>>

\* _process_jobs is entered (its local `job` is unbound) and subscribes
Subscribe(w) ==
    /\ pc[w] = "subscribe"
    /\ CanRun(w)
    /\ subs' = Append(subs, NewSubscription(w, SubjectOf(KindOf(w))))
    /\ sub' = [sub EXCEPT ![w] = Len(subs) + 1]
    /\ job' = [job EXCEPT ![w] = NoJob]
    /\ pc' = [pc EXCEPT ![w] = "iter"]
    /\ UNCHANGED <<is_running, conn, clamav_client, cur, frame,
                   processed_jobs, failed_jobs, msgs, dlv>>
    /\ UNCHANGED <<dataVars, lifeVars, envVars, callVars>>

\* async for msg in subscription.messages: the next message is taken
Take(w) ==
    /\ pc[w] = "iter"
    /\ CanRun(w)
    /\ conn[w] = "open"
    /\ NextQueued(sub[w]) # 0
    /\ cur' = [cur EXCEPT ![w] = NextQueued(sub[w])]
    /\ dlv' = SetState(dlv, NextQueued(sub[w]), "handling")
    /\ frame' = [frame EXCEPT ![w] = EmptyFrame]
    /\ pc' = [pc EXCEPT ![w] = "decode"]
    /\ UNCHANGED <<is_running, conn, clamav_client, sub, job,
                   processed_jobs, failed_jobs, msgs, subs>>
    /\ UNCHANGED <<dataVars, lifeVars, envVars, callVars>>

\* the iteration ends when the connection has been closed: _process_jobs
\* returns and start() sleeps its poll interval
IterEnd(w) ==
    /\ pc[w] = "iter"
    /\ CanRun(w)
    /\ conn[w] # "open"
    /\ pc' = [pc EXCEPT ![w] = "sleep1"]
    /\ UNCHANGED <<is_running, conn, clamav_client, sub, cur, job, frame,
                   processed_jobs, failed_jobs>>
    /\ UNCHANGED <<busVars, dataVars, lifeVars, envVars, callVars>>

FirstPc(kind, j) ==
    CASE kind = "ingest" -> "download"
      [] kind = "embed" -> IF Len(j.chunks) = 0 THEN "store" ELSE "embed"
      [] kind = "qa" -> "qa_vector"

\* job_data = msg.data.decode(); job = Model.parse_raw(job_data)
Decode(w) ==
    /\ pc[w] = "decode"
    /\ CanRun(w)
    /\ LET r == ParseRaw(ModelOf(KindOf(w)), msgs[dlv[cur[w]].msg].payload) IN
        IF r.ok
        THEN /\ job' = [job EXCEPT ![w] = r.job]
             /\ pc' = [pc EXCEPT ![w] = FirstPc(KindOf(w), r.job)]
             /\ frame' = frame
        ELSE /\ job' = job
             /\ pc' = [pc EXCEPT ![w] = "except"]
             /\ frame' = [frame EXCEPT ![w].error = "decode"]
    /\ UNCHANGED <<is_running, conn, clamav_client, sub, cur,
                   processed_jobs, failed_jobs>>
    /\ UNCHANGED <<busVars, dataVars, lifeVars, envVars, callVars>>

\* await msg.ack(): refused on a closed connection
Ack(w) ==
    /\ pc[w] = "ack"
    /\ CanRun(w)
    /\ IF conn[w] = "open"
       THEN /\ dlv' = SetState(dlv, cur[w], "acked")
            /\ cur' = [cur EXCEPT ![w] = 0]
            /\ pc' = [pc EXCEPT ![w] = "iter"]
            /\ frame' = frame
       ELSE /\ dlv' = dlv
            /\ cur' = cur
            /\ pc' = [pc EXCEPT ![w] = "except"]
            /\ frame' = [frame EXCEPT ![w].error = "ack"]
    /\ UNCHANGED <<is_running, conn, clamav_client, sub, job,
                   processed_jobs, failed_jobs, msgs, subs>>
    /\ UNCHANGED <<dataVars, lifeVars, envVars, callVars>>

\* except Exception as e: log_job_error(job.document_id, e); failed_jobs += 1;
\* await msg.nak().  With `job` unbound the log line raises, and so does nak
\* on a closed connection: either leaves the for loop through the outer
\* except of _process_jobs, which returns, and start() sleeps its poll interval.
Except(w) ==
    /\ pc[w] = "except"
    /\ CanRun(w)
    /\ IF job[w] = NoJob
       THEN /\ failed_jobs' = failed_jobs
            /\ dlv' = SetState(dlv, cur[w], "unanswered")
            /\ pc' = [pc EXCEPT ![w] = "sleep1"]
       ELSE /\ failed_jobs' = [failed_jobs EXCEPT ![w] = @ + 1]
            /\ IF conn[w] = "open"
               THEN /\ dlv' = SetState(dlv, cur[w], "nakked")
                    /\ pc' = [pc EXCEPT ![w] = "iter"]
               ELSE /\ dlv' = SetState(dlv, cur[w], "unanswered")
                    /\ pc' = [pc EXCEPT ![w] = "sleep1"]
    /\ cur' = [cur EXCEPT ![w] = 0]
    /\ UNCHANGED <<is_running, conn, clamav_client, sub, job, frame,
                   processed_jobs, msgs, subs>>
    /\ UNCHANGED <<dataVars, lifeVars, envVars, callVars>>

\* await asyncio.sleep(1) is over
Sleep1(w) ==
    /\ pc[w] = "sleep1"
    /\ CanRun(w)
    /\ pc' = [pc EXCEPT ![w] = "loop"]
    /\ UNCHANGED <<is_running, conn, clamav_client, sub, cur, job, frame,
                   processed_jobs, failed_jobs>>
    /\ UNCHANGED <<busVars, dataVars, lifeVars, envVars, callVars>>

\* subscribe raises, or the iteration over the subscription raises while it
\* waits for a message (the transport fails): the outer except of
\* _process_jobs catches the error
TransportError(w) ==
    /\ pc[w] \in {"subscribe", "iter"}
    /\ CanRun(w)
    /\ conn[w] = "open"
    /\ pc[w] = "iter" => Len(subs) <= MaxTransportErrors
    /\ pc' = [pc EXCEPT ![w] = "caught"]
    /\ UNCHANGED <<is_running, conn, clamav_client, sub, cur, job, frame,
                   processed_jobs, failed_jobs>>
    /\ UNCHANGED <<busVars, dataVars, lifeVars, envVars, callVars>>

\* the outer except of _process_jobs logs the error and the method returns
\* normally: start() goes on to its poll sleep.  (Nothing _process_jobs does
\* raises an Exception to start(), so the except branch of start(), with its
\* five second sleep, is never entered: no step leads to "sleep5".)
OuterExcept(w) ==
    /\ pc[w] = "caught"
    /\ CanRun(w)
    /\ pc' = [pc EXCEPT ![w] = "sleep1"]
    /\ UNCHANGED <<is_running, conn, clamav_client, sub, cur, job, frame,
                   processed_jobs, failed_jobs>>
    /\ UNCHANGED <<busVars, dataVars, lifeVars, envVars, callVars>>

\* ----------------------------------------------------------- ingest handler
\* an except branch that raises the error again without the status write:
\* what the handlers' except branch would be without its first statement
HandlerFailedUnrecorded(w, error) ==
    /\ status' = status
    /\ dlv' = [dlv EXCEPT ![cur[w]].result = "failed", ![cur[w]].error = error]
    /\ frame' = [frame EXCEPT ![w].error = error]
    /\ pc' = [pc EXCEPT ![w] = "except"]

\* the except branch of _process_ingest_job / _process_embed_job: the status
\* is written failed with the error in its metadata, and the error is raised
\* again to the consume loop
HandlerFailed(w, error) ==
    /\ status' = update_document_status(status, job[w].document_id, "failed", error)
    /\ dlv' = [dlv EXCEPT ![cur[w]].result = "failed", ![cur[w]].error = error,
                          ![cur[w]].wrote = "failed", ![cur[w]].wrote_error = error]
    /\ frame' = [frame EXCEPT ![w].error = error]
    /\ pc' = [pc EXCEPT ![w] = "except"]

\* local_file = await self._download_file(job.file_path): the temp file is
\* created first, then the object is fetched into it
Download(w) ==
    /\ pc[w] = "download"
    /\ CanRun(w)
    /\ scratch' = scratch \cup {cur[w]}
    /\ LET r == download_file(job[w].file_path) IN
        IF r.ok
        THEN /\ frame' = [frame EXCEPT ![w].local_file = cur[w]]
             /\ pc' = [pc EXCEPT ![w] = "scan"]
             /\ UNCHANGED <<status, dlv>>
        ELSE HandlerFailed(w, r.error)
    /\ UNCHANGED <<is_running, conn, clamav_client, sub, cur, job,
                   processed_jobs, failed_jobs, stored, msgs, subs>>
    /\ UNCHANGED <<lifeVars, envVars, callVars>>

\* await self._virus_scan(local_file), then the best-effort metadata
Scan(w) ==
    /\ pc[w] = "scan"
    /\ CanRun(w)
    /\ \E reachable \in BOOLEAN :
        LET r == virus_scan(job[w].file_path, clamav_client[w], reachable) IN
        IF r.ok
        THEN /\ pc' = [pc EXCEPT ![w] = "extract"]
             /\ UNCHANGED <<frame, status, dlv>>
        ELSE HandlerFailed(w, r.error)
    /\ UNCHANGED <<is_running, conn, clamav_client, sub, cur, job,
                   processed_jobs, failed_jobs, stored, scratch, msgs, subs>>
    /\ UNCHANGED <<lifeVars, envVars, callVars>>

\* text_content = await self._extract_text(local_file, job.mime_type)
Extract(w) ==
    /\ pc[w] = "extract"
    /\ CanRun(w)
    /\ LET r == extract_text(job[w].file_path, job[w].mime_type) IN
        IF r.ok
        THEN /\ frame' = [frame EXCEPT ![w].pages = r.pages]
             /\ pc' = [pc EXCEPT ![w] = "set_ingested"]
             /\ UNCHANGED <<status, dlv>>
        ELSE HandlerFailed(w, r.error)
    /\ UNCHANGED <<is_running, conn, clamav_client, sub, cur, job,
                   processed_jobs, failed_jobs, stored, scratch, msgs, subs>>
    /\ UNCHANGED <<lifeVars, envVars, callVars>>

\* a handler that goes on to publish without writing the status: what
\* _process_ingest_job must not be
SetIngestedSkipped(w) ==
    /\ pc[w] = "set_ingested"
    /\ CanRun(w)
    /\ pc' = [pc EXCEPT ![w] = "publish"]
    /\ UNCHANGED <<is_running, conn, clamav_client, sub, cur, job, frame,
                   processed_jobs, failed_jobs, stored, scratch, msgs, subs>>
    /\ UNCHANGED <<status, dlv, lifeVars, envVars, callVars>>

\* await self._update_document_status(job.document_id, "ingested", metadata)
SetIngested(w) ==
    /\ pc[w] = "set_ingested"
    /\ CanRun(w)
    /\ status' = update_document_status(status, job[w].document_id, "ingested", "none")
    /\ dlv' = [dlv EXCEPT ![cur[w]].wrote = "ingested", ![cur[w]].wrote_error = "none"]
    /\ pc' = [pc EXCEPT ![w] = "publish"]
    /\ UNCHANGED <<is_running, conn, clamav_client, sub, cur, job, frame,
                   processed_jobs, failed_jobs, stored, scratch, msgs, subs>>
    /\ UNCHANGED <<lifeVars, envVars, callVars>>

\* await self._publish_embed_job(job.document_id, text_content): the client
\* takes the bytes, or refuses them (closed connection, payload over the
\* server's limit) and the error is raised again
Publish(w) ==
    /\ pc[w] = "publish"
    /\ CanRun(w)
    /\ \E accepted \in BOOLEAN :
        IF accepted /\ conn[w] = "open"
        THEN /\ msgs' = Append(msgs, Message("jobs.embed",
                            EmbedJobBytes(job[w].document_id, frame[w].pages), cur[w]))
             /\ dlv' = Fanout(Len(msgs) + 1, "jobs.embed", dlv, subs, conn)
             /\ pc' = [pc EXCEPT ![w] = "cleanup"]
             /\ UNCHANGED <<frame, status>>
        ELSE /\ HandlerFailed(w, "Failed to publish embed job")
             /\ msgs' = msgs
    /\ UNCHANGED <<is_running, conn, clamav_client, sub, cur, job,
                   processed_jobs, failed_jobs, subs, stored, scratch>>
    /\ UNCHANGED <<lifeVars, envVars, callVars>>

\* os.unlink(local_file); processed_jobs += 1; the handler returns
Cleanup(w) ==
    /\ pc[w] = "cleanup"
    /\ CanRun(w)
    /\ scratch' = scratch \ {frame[w].local_file}
    /\ processed_jobs' = [processed_jobs EXCEPT ![w] = @ + 1]
    /\ dlv' = [dlv EXCEPT ![cur[w]].result = "completed"]
    /\ pc' = [pc EXCEPT ![w] = "ack"]
    /\ UNCHANGED <<is_running, conn, clamav_client, sub, cur, job, frame,
                   failed_jobs, status, stored, msgs, subs>>
    /\ UNCHANGED <<lifeVars, envVars, callVars>>

\* ------------------------------------------------------------ embed handler
\* one turn of the loop of _generate_embeddings: the provider answers the
\* request for the next chunk, or the request fails
EmbedChunk(w) ==
    /\ pc[w] = "embed"
    /\ CanRun(w)
    /\ LET i == Len(frame[w].embeddings) + 1 IN
        \E answered \in BOOLEAN, kind \in {"sound"} \cup provider_faults :
          IF answered
          THEN /\ frame' = [frame EXCEPT ![w].embeddings =
                                Append(@, Embedding(job[w].chunks[i], kind)),
                                          ![w].requests =
                                Append(@, job[w].chunks[i].content)]
               /\ pc' = [pc EXCEPT ![w] =
                                IF i = Len(job[w].chunks) THEN "store" ELSE "embed"]
               /\ UNCHANGED <<status, dlv>>
          ELSE HandlerFailed(w, "Failed to generate embedding")
    /\ UNCHANGED <<is_running, conn, clamav_client, sub, cur, job,
                   processed_jobs, failed_jobs, stored, scratch, msgs, subs>>
    /\ UNCHANGED <<lifeVars, envVars, callVars>>

\* await self._store_embeddings(job.document_id, job.chunks, embeddings)
Store(w) ==
    /\ pc[w] = "store"
    /\ CanRun(w)
    /\ stored' = store_embeddings(stored, job[w].document_id, job[w].chunks,
                                  frame[w].embeddings)
    /\ pc' = [pc EXCEPT ![w] = "set_embedded"]
    /\ UNCHANGED <<is_running, conn, clamav_client, sub, cur, job, frame,
                   processed_jobs, failed_jobs, status, scratch>>
    /\ UNCHANGED <<busVars, lifeVars, envVars, callVars>>

\* await self._update_document_status(job.document_id, "embedded");
\* processed_jobs += 1; the handler returns
SetEmbedded(w) ==
    /\ pc[w] = "set_embedded"
    /\ CanRun(w)
    /\ status' = update_document_status(status, job[w].document_id, "embedded", "none")
    /\ dlv' = [dlv EXCEPT ![cur[w]].result = "completed",
                          ![cur[w]].wrote = "embedded", ![cur[w]].wrote_error = "none"]
    /\ processed_jobs' = [processed_jobs EXCEPT ![w] = @ + 1]
    /\ pc' = [pc EXCEPT ![w] = "ack"]
    /\ UNCHANGED <<is_running, conn, clamav_client, sub, cur, job, frame,
                   failed_jobs, stored, scratch, msgs, subs>>
    /\ UNCHANGED <<lifeVars, envVars, callVars>>

\* --------------------------------------------------------------- QA handler
\* a provider or cache call of _process_qa_job returns: the query embedding
\* of _vector_search, the completion of _generate_answer, the setex of
\* _cache_result.  A failed provider call is logged and raised again; a
\* failed cache write is only logged, and the handler returns.  The result
\* dict is built after the answer and goes nowhere but into the cache: the
\* delivery records it as written when the setex succeeds.
QaStep(w, here, next) ==
    /\ pc[w] = here
    /\ CanRun(w)
    /\ \E answered \in BOOLEAN :
        IF answered \/ here = "qa_cache"
        THEN /\ pc' = [pc EXCEPT ![w] = next]
             /\ frame' = frame
             /\ processed_jobs' = [processed_jobs EXCEPT ![w] =
                                      IF here = "qa_cache" THEN @ + 1 ELSE @]
             /\ dlv' = [dlv EXCEPT ![cur[w]].result =
                                      IF here = "qa_cache" THEN "completed" ELSE @,
                                   ![cur[w]].wrote =
                                      IF here = "qa_cache" /\ answered
                                      THEN "qa_result" ELSE @]
        ELSE /\ pc' = [pc EXCEPT ![w] = "except"]
             /\ frame' = [frame EXCEPT ![w].error = here]
             /\ processed_jobs' = processed_jobs
             /\ dlv' = [dlv EXCEPT ![cur[w]].result = "failed", ![cur[w]].error = here]
    /\ UNCHANGED <<is_running, conn, clamav_client, sub, cur, job, failed_jobs,
                   msgs, subs>>
    /\ UNCHANGED <<dataVars, lifeVars, envVars, callVars>>

QaVector(w) == QaStep(w, "qa_vector", "qa_generate")

QaGenerate(w) == QaStep(w, "qa_generate", "qa_cache")

QaCache(w) == QaStep(w, "qa_cache", "ack")

\* -------------------------------------------------------------- environment
\* a publisher outside the workers puts a message on a job subject
EnvPublish ==
    /\ AllQuiet
    /\ lifespan = "serving"
    /\ publish_quota > 0
    /\ \E subject \in Subjects : \E payload \in EnvPayloads(subject) :
          /\ msgs' = Append(msgs, Message(subject, payload, 0))
          /\ dlv' = Fanout(Len(msgs) + 1, subject, dlv, subs, conn)
    /\ publish_quota' = publish_quota - 1
    /\ UNCHANGED <<workerVars, subs, dataVars, lifeVars, redeliver_quota,
                   provider_faults, callVars>>

\* the chunks of a document whose text repeats one paragraph: two pages of
\* the same content
RepeatedChunks == split_text_into_pages(<<Para("a", 1200), Para("a", 1200)>>)

\* a publisher puts the embed job of such a document on the bus
EnvPublishRepeated ==
    /\ AllQuiet
    /\ lifespan = "serving"
    /\ publish_quota > 0
    /\ "jobs.embed" \in Subjects
    /\ \E d \in Docs :
          /\ msgs' = Append(msgs, Message("jobs.embed",
                          JsonDumps([document_id |-> d, chunks |-> RepeatedChunks]), 0))
          /\ dlv' = Fanout(Len(msgs) + 1, "jobs.embed", dlv, subs, conn)
    /\ publish_quota' = publish_quota - 1
    /\ UNCHANGED <<workerVars, subs, dataVars, lifeVars, redeliver_quota,
                   provider_faults, callVars>>

\* the bus delivers a nak'd message again, to the subscription that nak'd it
Redeliver ==
    /\ AllQuiet
    /\ lifespan = "serving"
    /\ redeliver_quota > 0
    /\ \E d \in 1..Len(dlv) :
          /\ dlv[d].state = "nakked"
          /\ conn[subs[dlv[d].sub].owner] = "open"
          /\ dlv' = Append(SetState(dlv, d, "redelivered"),
                           Delivery(dlv[d].msg, dlv[d].sub))
    /\ redeliver_quota' = redeliver_quota - 1
    /\ UNCHANGED <<workerVars, msgs, subs, dataVars, lifeVars, publish_quota,
                   provider_faults, callVars>>

\* ----------------------------------------------------------------- lifespan
\* workers, in the order lifespan() stops them
WorkerOrder ==
    SelectSeq(<<"ingest1", "embed1", "qa1">>, LAMBDA w : pc[w] # "absent")

\* the application is told to shut down: lifespan() resumes after its yield
BeginShutdown ==
    /\ lifespan = "serving"
    /\ Quiet("p1")
    /\ \A i \in 1..Len(WorkerOrder) : pc[WorkerOrder[i]] # "init"
    /\ lifespan' = "stopping"
    /\ stop_idx' = 1
    /\ UNCHANGED <<workerVars, busVars, dataVars, envVars, callVars>>

\* await worker.stop(): is_running = False, then the NATS client is closed
StopWorker ==
    /\ lifespan = "stopping"
    /\ stop_idx <= Len(WorkerOrder)
    /\ Quiet("p1")
    /\ LET w == WorkerOrder[stop_idx] IN
          /\ is_running' = [is_running EXCEPT ![w] = FALSE]
          /\ conn' = [conn EXCEPT ![w] = IF @ = "none" THEN "none" ELSE "closed"]
    /\ stop_idx' = stop_idx + 1
    /\ UNCHANGED <<pc, clamav_client, sub, cur, job, frame,
                   processed_jobs, failed_jobs, lifespan>>
    /\ UNCHANGED <<busVars, dataVars, envVars, callVars>>

\* task.cancel() for every task, then gather: a task that has not ended is
\* cancelled where it is suspended
CancelTasks ==
    /\ lifespan = "stopping"
    /\ stop_idx > Len(WorkerOrder)
    /\ Quiet("p1")
    /\ pc' = [w \in Workers |->
                IF ProcOf(w) = "p1" /\ pc[w] \notin EndedPcs THEN "cancelled" ELSE pc[w]]
    /\ lifespan' = "stopped"
    /\ UNCHANGED <<is_running, conn, clamav_client, sub, cur, job, frame,
                   processed_jobs, failed_jobs, stop_idx>>
    /\ UNCHANGED <<busVars, dataVars, envVars, callVars>>

\* ------------------------------------------------------------ specification
\* the state after the workers in `active` have been constructed and their
\* tasks created; the environment will publish at most `publishes` messages
\* and the bus redeliver at most `redeliveries` times
WorkersInit(active, publishes, redeliveries) ==
    /\ pc = [w \in Workers |-> IF w \in active THEN "init" ELSE "absent"]
    /\ is_running = [w \in Workers |-> FALSE]
    /\ conn = [w \in Workers |-> "none"]
    /\ clamav_client = [w \in Workers |-> FALSE]
    /\ sub = [w \in Workers |-> 0]
    /\ cur = [w \in Workers |-> 0]
    /\ job = [w \in Workers |-> NoJob]
    /\ frame = [w \in Workers |-> EmptyFrame]
    /\ processed_jobs = [w \in Workers |-> 0]
    /\ failed_jobs = [w \in Workers |-> 0]
    /\ msgs = <<>>
    /\ dlv = <<>>
    /\ subs = <<>>
    /\ status = [d \in Docs |-> [state |-> "uploaded", error |-> "none"]]
    /\ stored = [d \in Docs |-> <<>>]
    /\ scratch = {}
    /\ lifespan = "serving"
    /\ stop_idx = 0
    /\ publish_quota = publishes
    /\ redeliver_quota = redeliveries

InitWith(active, publishes, redeliveries) ==
    /\ WorkersInit(active, publishes, redeliveries)
    /\ provider_faults = {}
    /\ call = NoCall
    /\ ret = NoCall

LoopStep(w) ==
    \/ Start(w) \/ LoopCheck(w) \/ Subscribe(w) \/ Take(w)
    \/ Decode(w) \/ Ack(w) \/ Except(w) \/ Sleep1(w)

IngestStep(w) ==
    \/ Download(w) \/ Scan(w) \/ Extract(w) \/ SetIngested(w) \/ Publish(w)
    \/ Cleanup(w)

EmbedStep(w) == EmbedChunk(w) \/ Store(w) \/ SetEmbedded(w)

QaSteps(w) == QaVector(w) \/ QaGenerate(w) \/ QaCache(w)

Shutdown ==
    \/ BeginShutdown \/ StopWorker \/ CancelTasks
    \/ \E w \in Workers : IterEnd(w)

\* The document pipeline in service: the ingest and the embed worker of one
\* process and the publishers on their subjects.
Init == InitWith({"ingest1", "embed1"}, MaxPublish, 0)

Next ==
    \/ \E w \in Workers : LoopStep(w) \/ IngestStep(w) \/ EmbedStep(w)
    \/ EnvPublish

Spec == Init /\ [][Next]_vars

\* The document pipeline in service, with the bus redelivering what was nak'd.
RetryInit == InitWith({"ingest1", "embed1"}, MaxPublishRetry, MaxRedeliver)

RetryNext ==
    \/ \E w \in Workers : LoopStep(w) \/ IngestStep(w) \/ EmbedStep(w)
    \/ EnvPublish
    \/ Redeliver

RetrySpec == RetryInit /\ [][RetryNext]_vars

\* The document pipeline from start to shutdown.
ShutdownInit == InitWith({"ingest1", "embed1"}, MaxPublishShutdown, 0)

ShutdownNext ==
    \/ \E w \in Workers : LoopStep(w) \/ IngestStep(w) \/ EmbedStep(w)
    \/ EnvPublish
    \/ Shutdown

ShutdownSpec == ShutdownInit /\ [][ShutdownNext]_vars

\* The QA worker alone, from start to shutdown.
QaInit == InitWith({"qa1"}, MaxPublishRetry, MaxRedeliver)

QaNext ==
    \/ \E w \in Workers : LoopStep(w) \/ QaSteps(w)
    \/ EnvPublish
    \/ Redeliver
    \/ Shutdown

QaSpec == QaInit /\ [][QaNext]_vars

\* Horizontal scale: two instances of the ingest worker, each in a process
\* of its own, subscribed to jobs.ingest.
ScaleInit == InitWith({"ingest1", "ingest2"}, MaxPublishScale, 0)

ScaleNext ==
    \/ \E w \in Workers : LoopStep(w) \/ IngestStep(w)
    \/ EnvPublish

ScaleSpec == ScaleInit /\ [][ScaleNext]_vars

\* The embed worker alone, with a model provider whose vectors may be
\* defective.
EmbedInit ==
    /\ WorkersInit({"embed1"}, MaxPublishEmbed, 0)
    /\ provider_faults = VectorFaults
    /\ call = NoCall
    /\ ret = NoCall

EmbedNext ==
    \/ \E w \in Workers : LoopStep(w) \/ EmbedStep(w)
    \/ EnvPublish
    \/ EnvPublishRepeated

EmbedSpec == EmbedInit /\ [][EmbedNext]_vars

\* The embed worker alone, on a transport that may fail under it.
TransportInit == InitWith({"embed1"}, MaxPublishTransport, 0)

TransportNext ==
    \/ \E w \in Workers : LoopStep(w) \/ EmbedStep(w)
    \/ \E w \in Workers : TransportError(w) \/ OuterExcept(w)
    \/ \E w \in Workers : ConnectFails(w)
    \/ EnvPublish

TransportSpec == TransportInit /\ [][TransportNext]_vars

\* ------------------------------------------------------------- direct calls
\* A function of a worker called on its own, as its unit tests call it: no
\* worker is started, `call` holds the arguments and `ret` the value returned.
CallInit(calls) ==
    /\ WorkersInit({}, 0, 0)
    /\ provider_faults = {}
    /\ call \in calls
    /\ ret = NoCall

\* the lengths of the paragraphs of the texts split: empty, short, two that
\* fill a page exactly, and one longer than a page
ParaLens == {0, 900, 1000, 1100, 2100}

\* every text of at most MaxParas paragraphs of these lengths
Texts ==
    {[i \in 1..Len(ls) |-> Para(ToString(i), ls[i])] :
        ls \in UNION {[1..n -> ParaLens] : n \in 0..MaxParas}}

\* pages = self._split_text_into_pages(text)
SplitCall ==
    /\ ret = NoCall
    /\ call.fn = "split_text_into_pages"
    /\ ret' = [pages |-> split_text_into_pages(call.text)]
    /\ UNCHANGED <<workerVars, busVars, dataVars, lifeVars, envVars, call>>

SplitInit == CallInit({[fn |-> "split_text_into_pages", text |-> t] : t \in Texts})

SplitNext == SplitCall

SplitSpec == SplitInit /\ [][SplitNext]_vars

\* the chunks of the index a search pass can return: two of document d1,
\* one of document d2, and a row that carries no chunk_id
Candidates ==
    {[chunk_id |-> "c1", document_id |-> "d1"],
     [chunk_id |-> "c2", document_id |-> "d1"],
     [chunk_id |-> "c3", document_id |-> "d2"],
     [document_id |-> "d2"],
     [id |-> "chunk_1", document_id |-> "d1"]}

\* what one pass returns: at most MaxPassResults candidates, in any order
PassResults == UNION {[1..n -> Candidates] : n \in 0..MaxPassResults}

\* QAJob.document_ids: no scope, or the documents the answer is asked of
Scopes == {PyNone, [ids |-> {"d1"}]}

RetrieveCalls ==
    {[fn |-> "retrieve_chunks",
      job |-> [query |-> "q1", max_results |-> n, document_ids |-> scope],
      vector_results |-> v, bm25_results |-> b] :
        n \in 1..MaxResults, scope \in Scopes, v \in PassResults, b \in PassResults}

\* chunks = await self._retrieve_chunks(job)
RetrieveCall ==
    /\ ret = NoCall
    /\ call.fn = "retrieve_chunks"
    /\ ret' = [chunks |-> retrieve_chunks(call.job, call.vector_results,
                                           call.bm25_results)]
    /\ UNCHANGED <<workerVars, busVars, dataVars, lifeVars, envVars, call>>

RetrieveInit == CallInit(RetrieveCalls)

RetrieveNext == RetrieveCall

RetrieveSpec == RetrieveInit /\ [][RetrieveNext]_vars

\* The first two steps of _process_qa_job on their own: retrieval, then the
\* rerank of what retrieval returned.
RankCalls ==
    {[fn |-> "process_qa_job", job |-> c.job,
      vector_results |-> c.vector_results, bm25_results |-> c.bm25_results] :
        c \in RetrieveCalls}

\* chunks = await self._retrieve_chunks(job)
QaRetrieve ==
    /\ ret = NoCall
    /\ call.fn = "process_qa_job"
    /\ ret' = [at |-> "retrieved",
               chunks |-> retrieve_chunks(call.job, call.vector_results,
                                          call.bm25_results)]
    /\ UNCHANGED <<workerVars, busVars, dataVars, lifeVars, envVars, call>>

\* ranked_chunks = await self._rerank_chunks(job.query, chunks): the list the
\* reranker was given is kept beside the list it returned
QaRerank ==
    /\ ret # NoCall
    /\ call.fn = "process_qa_job"
    /\ ret.at = "retrieved"
    /\ ret' = [at |-> "reranked",
               chunks |-> ret.chunks,
               reranker_input |-> ret.chunks,
               ranked_chunks |-> rerank_chunks(call.job.query, ret.chunks)]
    /\ UNCHANGED <<workerVars, busVars, dataVars, lifeVars, envVars, call>>

RankInit == CallInit(RankCalls)

RankNext == QaRetrieve \/ QaRerank

RankSpec == RankInit /\ [][RankNext]_vars

\* Two QA jobs handled one after the other, by one instance of the QA worker
\* or by two, each reading the clock when its handler starts; the Redis cache
\* the instances share is kept in ret.
MaxClock == 12

QaInstances == {"qa1", "qa2"}

CacheCalls ==
    {[fn |-> "cache_result",
      first |-> [query |-> q[1], start_time |-> t[1], worker |-> "qa1"],
      second |-> [query |-> q[2], start_time |-> t[2], worker |-> w]] :
        q \in {<<"q1", "q2">>, <<"q2", "q1">>},
        t \in {c \in (0..MaxClock) \X (0..MaxClock) : c[1] <= c[2]},
        w \in QaInstances}

\* what _process_qa_job caches for a job: the answer to its query
QaResult(qa_job) == [answer_to |-> qa_job.query]

\* await self._cache_result(job_id, result) of the first job
CacheFirst ==
    /\ ret = NoCall
    /\ call.fn = "cache_result"
    /\ ret' = [at |-> "first",
               cache |-> cache_result(<<>>, job_id(call.first.start_time),
                                      QaResult(call.first))]
    /\ UNCHANGED <<workerVars, busVars, dataVars, lifeVars, envVars, call>>

\* await self._cache_result(job_id, result) of the second job
CacheSecond ==
    /\ ret # NoCall
    /\ call.fn = "cache_result"
    /\ ret.at = "first"
    /\ ret' = [at |-> "second",
               cache |-> cache_result(ret.cache, job_id(call.second.start_time),
                                      QaResult(call.second))]
    /\ UNCHANGED <<workerVars, busVars, dataVars, lifeVars, envVars, call>>

CacheInit == CallInit(CacheCalls)

CacheNext == CacheFirst \/ CacheSecond

CacheSpec == CacheInit /\ [][CacheNext]_vars

\* The same two steps on candidates that carry what an order is made of: the
\* fused score, the age rank of the document (greater is more recent) and the
\* chunk_index.
MaxScoredResults == 2

ScoredCandidates ==
    {[chunk_id |-> "c1", document_id |-> "d1", recency |-> 1, chunk_index |-> 0,
      score |-> 2],
     [chunk_id |-> "c2", document_id |-> "d2", recency |-> 2, chunk_index |-> 0,
      score |-> 1],
     [chunk_id |-> "c3", document_id |-> "d1", recency |-> 1, chunk_index |-> 1,
      score |-> 1],
     [chunk_id |-> "c4", document_id |-> "d1", recency |-> 1, chunk_index |-> 0,
      score |-> 1]}

ScoredPassResults ==
    UNION {[1..n -> ScoredCandidates] : n \in 0..MaxScoredResults}

OrderCalls ==
    {[fn |-> "process_qa_job",
      job |-> [query |-> "q1", max_results |-> n, document_ids |-> PyNone],
      vector_results |-> v, bm25_results |-> b] :
        n \in 1..MaxResults, v \in ScoredPassResults, b \in ScoredPassResults}

OrderInit == CallInit(OrderCalls)

OrderNext == QaRetrieve \/ QaRerank

OrderSpec == OrderInit /\ [][OrderNext]_vars

\* the ranked chunks a citation is built from: a complete one, one with an
\* empty content, one without content and one without a page number
RankedChunks ==
    {[chunk_id |-> "c1", document_id |-> "d1", page_number |-> 2, chunk_index |-> 0,
      content |-> "text", score |-> 1],
     [chunk_id |-> "c2", document_id |-> "d1", page_number |-> 3, chunk_index |-> 1,
      content |-> "", score |-> 1],
     [chunk_id |-> "c3", document_id |-> "d1", page_number |-> 4, chunk_index |-> 2,
      score |-> 1],
     [chunk_id |-> "c4", document_id |-> "d1", chunk_index |-> 3,
      content |-> "text", score |-> 1],
     [chunk_id |-> "c5", document_id |-> "d1", page_number |-> 2, chunk_index |-> 4,
      content |-> "more text", score |-> 1]}

\* the answer of the model is the set of the n of its markers [n]
CiteCalls ==
    {[fn |-> "create_citations", ranked_chunks |-> c, answer |-> a] :
        c \in UNION {[1..n -> RankedChunks] : n \in 0..MaxRanked},
        a \in SUBSET (1..(MaxRanked + 1))}

\* answer = await self._generate_answer(...);
\* citations = self._create_citations(ranked_chunks)
CiteCall ==
    /\ ret = NoCall
    /\ call.fn = "create_citations"
    /\ ret' = [answer |-> call.answer,
               citations |-> create_citations(call.ranked_chunks)]
    /\ UNCHANGED <<workerVars, busVars, dataVars, lifeVars, envVars, call>>

CiteInit == CallInit(CiteCalls)

CiteNext == CiteCall

CiteSpec == CiteInit /\ [][CiteNext]_vars

\* ------------------------------------------------------------------- claims
DeliveryIds == 1..Len(dlv)

SubjectOfDelivery(d) == msgs[dlv[d].msg].subject

OwnerOf(d) == subs[dlv[d].sub].owner

\* the bus has the consume loop's answer to the delivery
Nakked(d) == dlv[d].state \in {"nakked", "redelivered"}

\* the consume loop is in its except branch for delivery d, about to nak it
AboutToNak(d) == \E w \in Workers : cur[w] = d /\ pc[w] = "except"

\* C1: in the consume loops, a delivery is acknowledged only if its handler
\* completed without error, and a delivery whose handler failed is nak'd and
\* never acknowledged.
C1_AckOnlyOnSuccessNakOnFailure ==
    \A d \in DeliveryIds :
        /\ dlv[d].state = "acked" => dlv[d].result = "completed"
        /\ dlv[d].result = "failed" => Nakked(d) \/ AboutToNak(d)

\* C2: an error while handling one message does not end the worker's
\* iteration over its subscription: as long as its connection is open, a
\* worker that has subscribed stays in the iteration (it is never back in the
\* poll sleep or at a new subscribe).
C2_ErrorDoesNotEndIteration ==
    \A w \in Workers :
        (conn[w] = "open" /\ sub[w] # 0) => pc[w] \notin {"sleep1", "loop", "subscribe"}

\* C3: if a step of an ingest job fails (download, virus scan, text
\* extraction, publishing the EmbedJob), the last status the job writes for
\* its document is failed with the error in the metadata, the document holds
\* that status when the error reaches the consume loop, and the message is
\* nak'd.
C3_FailedIngestIsMarkedFailedAndNakked ==
    \A d \in DeliveryIds :
        (SubjectOfDelivery(d) = "jobs.ingest" /\ dlv[d].result = "failed") =>
            /\ dlv[d].error # "none"
            /\ dlv[d].wrote = "failed"
            /\ dlv[d].wrote_error = dlv[d].error
            /\ Nakked(d) \/ AboutToNak(d)
            /\ \A w \in Workers :
                 (cur[w] = d /\ pc[w] = "except") =>
                     status[job[w].document_id] =
                         [state |-> "failed", error |-> dlv[d].error]

FailedAt(error) ==
    \E d \in DeliveryIds :
        /\ SubjectOfDelivery(d) = "jobs.ingest"
        /\ dlv[d].result = "failed"
        /\ dlv[d].error = error
        /\ Nakked(d)

C3_Witness ==
    /\ FailedAt("Failed to publish embed job")
    /\ \/ FailedAt("Failed to download file from S3")
       \/ FailedAt("Virus scan failed: Virus detected")
       \/ FailedAt("Unsupported mime type")

\* every chunk of the job has a row with its embedding among the rows stored
Covered(chunks, rows) ==
    \A i \in 1..Len(chunks) :
        \E k \in 1..Len(rows) :
            \E kind \in VectorKinds :
                rows[k] = [chunk |-> chunks[i], embedding |-> Embedding(chunks[i], kind)]

\* C4: when an embed job has set its document's status to embedded, an
\* embedding has been generated for every chunk of the job and all of them
\* have been stored.
C4_EmbeddedOnlyAfterAllStored ==
    \A w \in Workers :
        (KindOf(w) = "embed" /\ cur[w] # 0 /\ dlv[cur[w]].wrote = "embedded") =>
            /\ Len(frame[w].embeddings) = Len(job[w].chunks)
            /\ Covered(job[w].chunks, stored[job[w].document_id])
            /\ status[job[w].document_id].state = "embedded"

C4_Witness ==
    \E w \in Workers :
        /\ KindOf(w) = "embed"
        /\ pc[w] = "ack"
        /\ Len(job[w].chunks) = 2
        /\ dlv[cur[w]].wrote = "embedded"

\* C5: once a document is embedded, no later status write takes it back to
\* ingested.
C5_EmbeddedIsNotOverwrittenByIngested ==
    [][\A d \in Docs :
          status[d].state = "embedded" => status'[d].state # "ingested"]_vars

\* C6: the EmbedJob an ingest job publishes is consumed and completed by the
\* embed worker: once the embed worker is done with a delivery of it, the
\* delivery has been handled to completion and acked.
C6_PublishedEmbedJobIsCompleted ==
    \A d \in DeliveryIds :
        (msgs[dlv[d].msg].cause # 0 /\ dlv[d].state \notin {"queued", "handling"}) =>
            (dlv[d].state = "acked" /\ dlv[d].wrote = "embedded")

\* the job the ingest handler of delivery d was given
JobOf(d) == msgs[dlv[d].msg].payload.obj

\* C7: every payload an ingest worker publishes on jobs.embed decodes as an
\* EmbedJob, with the document_id of the ingest job and the chunks published.
C7_PublishedPayloadDecodes ==
    \A m \in 1..Len(msgs) :
        msgs[m].cause # 0 =>
            LET r == ParseRaw("EmbedJob", msgs[m].payload) IN
            /\ r.ok
            /\ r.job.document_id = JobOf(msgs[m].cause).document_id
            /\ r.job.chunks = msgs[m].payload.obj.chunks

\* the scanner of the worker that got delivery d reports a threat for its file
ThreatReported(d) ==
    /\ SubjectOfDelivery(d) = "jobs.ingest"
    /\ ParseRaw("IngestJob", msgs[dlv[d].msg].payload).ok
    /\ Storage(JobOf(d).file_path).present
    /\ Storage(JobOf(d).file_path).threat
    /\ clamav_client[OwnerOf(d)]

\* C8: an ingest job for whose file the scanner reports a threat publishes
\* no EmbedJob, writes no status but failed, leaves the document failed when
\* the error reaches the consume loop, and its message is nak'd, never acked.
C8_ThreatFailsTheJob ==
    \A d \in DeliveryIds :
        ThreatReported(d) =>
            /\ \A m \in 1..Len(msgs) : msgs[m].cause # d
            /\ dlv[d].wrote \in {"nothing", "failed"}
            /\ dlv[d].state \in {"queued", "handling", "nakked", "redelivered"}
            /\ dlv[d].result \in {"none", "failed"}
            /\ dlv[d].result = "failed" =>
                   /\ dlv[d].wrote = "failed"
                   /\ Nakked(d) \/ AboutToNak(d)
            /\ \A w \in Workers :
                 (cur[w] = d /\ pc[w] = "except") =>
                     status[job[w].document_id].state = "failed"

C8_Witness ==
    \E d \in DeliveryIds :
        /\ ThreatReported(d)
        /\ Nakked(d)
        /\ dlv[d].wrote_error = "Virus scan failed: Virus detected"

\* a handler invocation of w is in flight: a delivery has been taken and the
\* consume loop has not answered it yet
InFlight(w) == cur[w] # 0

\* C9: the bus connection of a worker is closed only once no handler
\* invocation of that worker is in flight.
C9_ClosedOnlyWhenNoHandlerInFlight ==
    \A w \in Workers : conn[w] = "closed" => ~InFlight(w)

\* C10: two instances subscribed to the same subject never handle the same
\* message at the same time.
C10_CompetingConsumers ==
    \A v, w \in Workers :
        (v # w /\ cur[v] # 0 /\ cur[w] # 0) => dlv[cur[v]].msg # dlv[cur[w]].msg

\* the splitter has returned its pages
SplitReturned == ret # NoCall /\ call.fn = "split_text_into_pages"

\* C11: every chunk the splitter produces has a content of at most
\* max_page_length characters, or consists of one single paragraph.
C11_ChunkWithinBoundOrSingleParagraph ==
    SplitReturned =>
        \A k \in 1..Len(ret.pages) :
            \/ JoinLen(ret.pages[k].content) <= max_page_length
            \/ Len(ret.pages[k].content) = 1

\* C12: the k-th chunk the splitter emits, counting from 0, carries index k.
C12_IndexIsPosition ==
    SplitReturned =>
        \A k \in 1..Len(ret.pages) : ret.pages[k].page_number = k - 1

C12_Witness == SplitReturned /\ Len(ret.pages) = 3

\* the messages ingest handlers have published
PublishedByIngest == {m \in 1..Len(msgs) : msgs[m].cause # 0}

C14_StoredEmbeddingsAreValid ==
    \A d \in Docs :
        \A k \in 1..Len(stored[d]) : stored[d][k].embedding.kind = "sound"

RetrieveReturned == ret # NoCall /\ call.fn = "retrieve_chunks"

\* C15: hybrid retrieval returns at most max_results candidates, and no two
\* candidates returned have the same chunk identity.
C15_AtMostMaxResultsNoDuplicates ==
    RetrieveReturned =>
        /\ Len(ret.chunks) <= call.job.max_results
        /\ \A i, j \in 1..Len(ret.chunks) :
              i # j => Get(ret.chunks[i], "chunk_id", "None")
                         # Get(ret.chunks[j], "chunk_id", "None")

\* both passes return the same chunk, and more is found than is asked for
C15_Witness ==
    /\ RetrieveReturned
    /\ \E i \in 1..Len(call.vector_results), j \in 1..Len(call.bm25_results) :
          call.vector_results[i] = call.bm25_results[j]
    /\ Len(combine_results(call.vector_results, call.bm25_results))
          > call.job.max_results
    /\ Len(ret.chunks) = call.job.max_results

CiteReturned == ret # NoCall /\ call.fn = "create_citations"

\* the citations of the chunks at the positions `at`, in order
RECURSIVE CitationsAt(_, _, _)
CitationsAt(chunks, i, at) ==
    IF i > Len(chunks)
    THEN <<>>
    ELSE (IF i \in at THEN <<Citation(chunks[i])>> ELSE <<>>)
         \o CitationsAt(chunks, i + 1, at)

\* C16: the citations of a response are exactly those of the ranked chunks
\* whose 1-based ordinal appears as a marker [n] in the answer.
C16_CitationsAreTheMarkedChunks ==
    CiteReturned =>
        ret.citations = CitationsAt(call.ranked_chunks, 1, ret.answer)

\* the chunk has a non-empty content and a page number
WellFormed(chunk) ==
    /\ Get(chunk, "content", "") # ""
    /\ "page_number" \in DOMAIN chunk

\* C17: no citation of a response has an empty excerpt or is built from a
\* chunk that has no page number: such a citation is dropped.
C17_MalformedCitationsAreDropped ==
    CiteReturned =>
        /\ \A k \in 1..Len(ret.citations) : ret.citations[k].content # ""
        /\ ret.citations =
              CitationsAt(call.ranked_chunks, 1,
                          {i \in 1..Len(call.ranked_chunks) :
                              WellFormed(call.ranked_chunks[i])})

\* C18: when a QAJob carries document_ids, every candidate retrieval returns
\* belongs to a document of that set.
C18_CandidatesStayInScope ==
    (RetrieveReturned /\ call.job.document_ids # PyNone) =>
        \A i \in 1..Len(ret.chunks) :
            ret.chunks[i].document_id \in call.job.document_ids.ids

\* C19: when retrieval or answer generation fails in a QA job, the worker
\* still emits a result for the caller (a degraded answer or a failure
\* report): a QA delivery whose handler failed has a result written.
C19_FailedQaJobStillHasResult ==
    \A d \in DeliveryIds :
        (SubjectOfDelivery(d) = "jobs.qa" /\ dlv[d].result = "failed") =>
            dlv[d].wrote = "qa_result"

\* C20: when subscribing to or receiving from the bus fails at transport
\* level, the worker's loop waits the backoff interval (the five second
\* sleep, not the one second poll sleep) before it subscribes again: from the
\* error caught, the worker's next position is the backoff sleep.
C20_TransportErrorBacksOff ==
    [][\A w \in Workers : pc[w] = "caught" => pc'[w] \in {"caught", "sleep5"}]_vars

\* C21: a failure to connect to the bus while a worker starts does not end
\* the worker: while the application serves, the task of a worker that was
\* started has not ended.
C21_ConnectFailureDoesNotEndWorker ==
    \A w \in Workers :
        lifespan = "serving" => pc[w] \notin {"crashed", "returned", "cancelled"}

\* C22: the embed job of a document is published strictly after its status
\* was set to ingested: every step in which an ingest handler adds a message
\* to the bus starts in a state where that handler's last status write is
\* ingested and the status of the document is ingested.
C22_PublishOnlyAfterIngested ==
    [][\A m \in 1..Len(msgs') :
          (m > Len(msgs) /\ msgs'[m].cause # 0)
              => /\ dlv[msgs'[m].cause].wrote = "ingested"
                 /\ \E w \in Workers :
                       /\ cur[w] = msgs'[m].cause
                       /\ status[job[w].document_id].state = "ingested"]_vars

\* an ingest handler has published the embed job of its document
C22_Witness ==
    \E m \in PublishedByIngest :
        /\ msgs[m].subject = "jobs.embed"
        /\ dlv[msgs[m].cause].wrote = "ingested"

\* C23: if the generation of an embedding fails for a chunk of an embed job,
\* the job has not collected the embeddings it would store, the last status
\* it writes is failed (never embedded), and the message is nak'd.
C23_FailedGenerationStoresNothingAndNaks ==
    \A d \in DeliveryIds :
        (/\ SubjectOfDelivery(d) = "jobs.embed"
         /\ dlv[d].result = "failed"
         /\ dlv[d].error = "Failed to generate embedding") =>
            /\ dlv[d].wrote = "failed"
            /\ Nakked(d) \/ AboutToNak(d)
            /\ \A w \in Workers :
                 cur[w] = d =>
                     /\ Len(frame[w].embeddings) < Len(job[w].chunks)
                     /\ status[job[w].document_id].state = "failed"

\* C24: a virus scanner that cannot be reached, when the worker connects or
\* when the scan is called, never fails the ingest job: the scan is skipped
\* and the job goes on.
C24_UnreachableScannerDoesNotFailJob ==
    \A d \in DeliveryIds :
        dlv[d].result = "failed" =>
            dlv[d].error # "Virus scan failed: Connection refused"

\* C25: a detected threat fails the job with an error of its own kind,
\* VirusDetected, which no failure of the scan itself and no other failure of
\* the job carries.
C25_VirusDetectedIsItsOwnErrorKind ==
    \A d \in DeliveryIds :
        (ThreatReported(d) /\ dlv[d].error = "Virus scan failed: Virus detected") =>
            /\ ExceptionClass(dlv[d].error) = "VirusDetected"
            /\ \A e \in DeliveryIds :
                 (/\ dlv[e].result = "failed"
                  /\ dlv[e].error # dlv[d].error) =>
                     ExceptionClass(dlv[e].error) # ExceptionClass(dlv[d].error)

\* C26: every chunk an ingest job publishes has content that is neither empty
\* nor only whitespace; a file whose native extraction and whose OCR both give
\* no text fails its job instead.
C26_PublishedChunksHaveContent ==
    \A m \in PublishedByIngest :
        \A i \in 1..Len(msgs[m].payload.obj.chunks) :
            ~IsBlank(msgs[m].payload.obj.chunks[i].content)

\* the paragraphs of "\n\n".join(page["content"] for page in pages): each
\* content gives back the paragraphs that were joined into it, an empty
\* content gives one empty paragraph
RECURSIVE JoinContents(_)
JoinContents(pages) ==
    IF pages = <<>>
    THEN <<>>
    ELSE PySplit(pages[1].content) \o JoinContents(Tail(pages))

\* two texts are the same string: the same paragraphs in the same order,
\* every paragraph of no character being the empty string
SameString(a, b) ==
    LET x == PySplit(a)
        y == PySplit(b)
    IN  /\ Len(x) = Len(y)
        /\ \A i \in 1..Len(x) :
              /\ x[i].len = y[i].len
              /\ x[i].len > 0 => x[i].id = y[i].id

\* C27: splitting an empty text yields no chunk at all.
C27_EmptyTextYieldsNoChunk ==
    (SplitReturned /\ call.text = <<>>) => ret.pages = <<>>

\* C28: joining the contents of the chunks the splitter returns, in order,
\* with the blank-line delimiter gives back exactly the text that was split.
C28_JoinedChunksAreTheInput ==
    SplitReturned => SameString(JoinContents(ret.pages), call.text)

\* a text of three paragraphs has been split into more than one page
C28_Witness ==
    /\ SplitReturned
    /\ Len(call.text) = 3
    /\ Len(ret.pages) >= 2
    /\ \E k \in 1..Len(ret.pages) : Len(ret.pages[k].content) = 2

\* C29: within one run of the embedding generator the provider is asked at
\* most once for each distinct content, and two chunks of equal content get
\* the same vector.
C29_ProviderCalledOncePerContent ==
    \A w \in Workers :
        KindOf(w) = "embed" =>
            /\ \A i, j \in 1..Len(frame[w].requests) :
                  i # j => frame[w].requests[i] # frame[w].requests[j]
            /\ \A i, j \in 1..Len(frame[w].embeddings) :
                  job[w].chunks[i].content = job[w].chunks[j].content
                      => frame[w].embeddings[i] = frame[w].embeddings[j]

\* the QA job has reranked its candidates
Reranked == ret # NoCall /\ call.fn = "process_qa_job" /\ ret.at = "reranked"

\* C30: the candidates of a QA job are cut to max_results only after the
\* whole deduplicated set was reranked: the reranker is given every candidate
\* of the deduplicated union, and the cut to max_results is made on what it
\* returns.
C30_RerankBeforeTruncate ==
    Reranked =>
        /\ ret.reranker_input =
               combine_results(call.vector_results, call.bm25_results)
        /\ Len(ret.ranked_chunks) <= call.job.max_results

\* candidate a may stand before candidate b: a greater score, or the same
\* score and a more recent document, or the same of both and a chunk_index
\* that is not greater
MayPrecede(a, b) ==
    \/ a.score > b.score
    \/ a.score = b.score /\ a.recency > b.recency
    \/ a.score = b.score /\ a.recency = b.recency /\ a.chunk_index <= b.chunk_index

\* C31: the final candidate list of a QA job is in non-increasing score
\* order, with equal scores ordered by document recency and then by
\* ascending chunk_index.
C31_OrderedByScoreThenTieBreak ==
    (Reranked /\ call \in OrderCalls) =>
        \A i, j \in 1..Len(ret.ranked_chunks) :
            i < j => MayPrecede(ret.ranked_chunks[i], ret.ranked_chunks[j])

\* the candidates the two passes produced
Produced ==
    {call.vector_results[i] : i \in 1..Len(call.vector_results)}
        \cup {call.bm25_results[i] : i \in 1..Len(call.bm25_results)}

\* C32: every candidate hybrid retrieval returns was produced by the vector
\* pass or by the lexical pass, and the result has no more entries than the
\* passes produced distinct chunks.
C32_NoCandidateIsInvented ==
    RetrieveReturned =>
        /\ \A i \in 1..Len(ret.chunks) : ret.chunks[i] \in Produced
        /\ Len(ret.chunks) <= Cardinality(Produced)

\* the passes produced fewer distinct chunks than the job asks for, and the
\* result has one entry for each
C32_Witness ==
    /\ RetrieveReturned
    /\ Len(call.vector_results) + Len(call.bm25_results) >= 2
    /\ Cardinality(Produced) < call.job.max_results
    /\ Len(ret.chunks) = Cardinality(Produced)

\* C33: no two citations of one QA response refer to the same
\* (document_id, page_number) pair: the citations of different chunks of one
\* page are merged into one.
C33_OneCitationPerPage ==
    (/\ CiteReturned
     /\ \A i, j \in 1..Len(call.ranked_chunks) :
           i # j => call.ranked_chunks[i].chunk_id # call.ranked_chunks[j].chunk_id) =>
        \A i, j \in 1..Len(ret.citations) :
            i # j => <<ret.citations[i].document_id, ret.citations[i].page_number>>
                       # <<ret.citations[j].document_id, ret.citations[j].page_number>>

\* C34: every message delivered to a worker gets exactly one response, an ack
\* or a nak, whatever the outcome of decoding, of the handler or of the
\* acknowledgement: the consume loop never leaves a delivery it has taken
\* without a response.
C34_EveryDeliveryIsAnswered ==
    \A d \in DeliveryIds :
        (dlv[d].state # "queued" /\ \A w \in Workers : cur[w] # d) =>
            dlv[d].state \in {"acked", "nakked", "redelivered"}

\* C35: an ingest job that ends in failure (status failed, message nak'd) has
\* published no EmbedJob: the job behind every EmbedJob on jobs.embed has not
\* failed, and once the consume loop is done with its message the job has
\* completed and the message is acked.
C35_PublishedOnlyByJobsThatSucceed ==
    \A m \in PublishedByIngest :
        LET d == msgs[m].cause IN
            /\ dlv[d].result # "failed"
            /\ dlv[d].wrote # "failed"
            /\ ~Nakked(d)
            /\ (\A w \in Workers : cur[w] # d) =>
                   (dlv[d].result = "completed" /\ dlv[d].state = "acked")

\* both QA jobs have cached their results
BothCached == ret # NoCall /\ call.fn = "cache_result" /\ ret.at = "second"

\* C36: two distinct QA jobs never store their results under the same cache
\* key, also when both are handled within one clock second: once both have
\* cached, the cache holds the result of each.
C36_DistinctJobsDistinctKeys ==
    BothCached =>
        /\ job_id(call.first.start_time) # job_id(call.second.start_time)
        /\ \E k \in DOMAIN ret.cache : ret.cache[k] = QaResult(call.first)
        /\ \E k \in DOMAIN ret.cache : ret.cache[k] = QaResult(call.second)

\* C37: deduplication removes a candidate only if an earlier candidate is the
\* same chunk: when the job asks for at least as many results as the passes
\* produced distinct chunks, every produced chunk is in the result, also the
\* chunks that carry no chunk_id field.
C37_DifferentChunksAreBothKept ==
    (RetrieveReturned /\ Cardinality(Produced) <= call.job.max_results) =>
        \A c \in Produced : \E i \in 1..Len(ret.chunks) : ret.chunks[i] = c

\* C38: after an ingest job has ended, in success or in failure at any step,
\* the scratch file it created for the download no longer exists: a scratch
\* file that exists belongs to a job whose handler is still running.
C38_NoScratchFileOutlivesItsJob ==
    \A d \in scratch :
        \E w \in Workers : cur[w] = d /\ pc[w] \in HandlerPcs

\* the subscriptions of worker w that are open: the worker never
\* unsubscribes, so each lives as long as the connection it was made on
OpenSubscriptions(w) ==
    {s \in 1..Len(subs) : subs[s].owner = w /\ conn[w] = "open"}

\* C39: a worker has at most one open subscription on its job subject at any
\* time: entering _process_jobs again does not add a subscription on top of
\* one that is still open.
C39_AtMostOneOpenSubscription ==
    \A w \in Workers : Cardinality(OpenSubscriptions(w)) <= 1

====
